---- MODULE Spec2Model ----
(***************************************************************************)
(* Model of the company-domain finder: the search client (search_google),  *)
(* domain extraction and ranking, the pattern prefilter, the LLM filter    *)
(* and the suffix expansion loop (get_all_domains), in the three scripts   *)
(* of the repository: domain_search.py (Google Custom Search + OpenAI, key *)
(* from the session), streamlit_ui.py (Google Custom Search + prefilter +  *)
(* OpenAI) and try_streamlit.py (Serper + Gemini).                          *)
(*                                                                         *)
(* A Python str is a sequence of one-character strings, so that lower(),   *)
(* strip(), split(), replace(), startswith() and "in" are computed.        *)
(***************************************************************************)
EXTENDS Integers, Sequences, FiniteSets, TLC

VARIABLES
    variant,              \* which script runs
    api_key_set,          \* the search API key is present
    engine_id_set,        \* GOOGLE_SEARCH_ENGINE_ID is present
    llm_client,           \* openai_client / gemini_model is not None
    op,                   \* the function whose call the state records
    domains,              \* pre_filter_domains / filter_..._llm: argument
    company_name,         \* pre_filter_domains / filter_..._llm: argument
    llm_reply,            \* what the model API did on this call
    filter_out,           \* what the call did and returned
    num,                  \* search_google: argument
    pages,                \* search_google: what the provider answers, page by page
    search_out,           \* search_google: what the call did and returned
    pc,                   \* get_all_domains: where the call is
    root,                 \* get_all_domains: argument
    found_domains,        \* get_all_domains: local
    excluded_tlds,        \* get_all_domains: local
    links,                \* get_all_domains: the last search_google result
    queries,              \* get_all_domains: the queries issued so far
    excluded_after,       \* get_all_domains: excluded_tlds after each iteration
    result,               \* get_all_domains: the returned list
    company,              \* main: the text input
    unique_links,         \* main, search handler: local
    roots,                \* main, search handler: local
    most_common,          \* main, search handler: local
    search_status,        \* main, search handler: how it ended
    root_options,         \* st.session_state['root_options']
    provider_answers,     \* main, search handler: what the provider answered, query by query
    model_answer,         \* main, search handler: what the model API did, if asked
    cache,                \* st.cache_data: the stored results of filter_..._llm
    expanded_domains,     \* st.session_state['expanded_domains']: root -> list
    deleted_roots,        \* st.session_state['deleted_roots']
    deleted_domains,      \* st.session_state['deleted_domains']: root -> set
    table,                \* main: the root rows drawn by the last script run
    clicked,              \* main: the button the last script run handled
    expand_calls          \* main: the roots get_all_domains was called with since
                          \* the session state was last reset

configVars == <<variant, api_key_set, engine_id_set, llm_client>>
filterVars == <<domains, company_name, llm_reply, filter_out>>
searchVars == <<num, pages, search_out>>
expandVars ==
  <<pc, root, found_domains, excluded_tlds, links, queries, excluded_after, result>>
mainVars ==
  <<company, unique_links, roots, most_common, search_status, root_options,
    provider_answers, model_answer>>
uiVars ==
  <<expanded_domains, deleted_roots, deleted_domains, table, clicked, expand_calls>>
vars ==
  <<configVars, op, filterVars, searchVars, expandVars, mainVars, cache, uiVars>>

Variants == {"domain_search", "streamlit_ui", "try_streamlit"}

----------------------------------------------------------------------------
(* Python str operations *)

UpperChars ==
  <<"A","B","C","D","E","F","G","H","I","J","K","L","M",
    "N","O","P","Q","R","S","T","U","V","W","X","Y","Z">>
LowerChars ==
  <<"a","b","c","d","e","f","g","h","i","j","k","l","m",
    "n","o","p","q","r","s","t","u","v","w","x","y","z">>
DigitChars == {"0","1","2","3","4","5","6","7","8","9"}
Whitespace == {" ", "\n"}

LowerChar(c) ==
  IF \E i \in 1..Len(UpperChars) : UpperChars[i] = c
  THEN LowerChars[CHOOSE i \in 1..Len(UpperChars) : UpperChars[i] = c]
  ELSE c

\* str.lower()
Lower(s) == [i \in 1..Len(s) |-> LowerChar(s[i])]

\* str.startswith(p), str.endswith(p), p in s
StartsWith(s, p) == Len(p) <= Len(s) /\ SubSeq(s, 1, Len(p)) = p
EndsWith(s, p) == Len(p) <= Len(s) /\ SubSeq(s, Len(s) - Len(p) + 1, Len(s)) = p
Contains(s, p) == \E i \in 0..(Len(s) - Len(p)) : SubSeq(s, i + 1, i + Len(p)) = p

\* str.replace(old, new), old non-empty: left to right, without rescanning
RECURSIVE Replace(_, _, _)
Replace(s, old, new) ==
  IF s = <<>> THEN <<>>
  ELSE IF StartsWith(s, old)
       THEN new \o Replace(SubSeq(s, Len(old) + 1, Len(s)), old, new)
       ELSE <<Head(s)>> \o Replace(Tail(s), old, new)

\* str.strip()
RECURSIVE LStrip(_)
LStrip(s) == IF s # <<>> /\ Head(s) \in Whitespace THEN LStrip(Tail(s)) ELSE s
RECURSIVE RStrip(_)
RStrip(s) ==
  IF s # <<>> /\ s[Len(s)] \in Whitespace THEN RStrip(SubSeq(s, 1, Len(s) - 1)) ELSE s
Strip(s) == RStrip(LStrip(s))

\* str.split(c) for a one-character separator
RECURSIVE Split(_, _)
Split(s, c) ==
  IF \A i \in 1..Len(s) : s[i] # c THEN <<s>>
  ELSE LET i == CHOOSE k \in 1..Len(s) : s[k] = c /\ \A j \in 1..(k - 1) : s[j] # c
       IN <<SubSeq(s, 1, i - 1)>> \o Split(SubSeq(s, i + 1, Len(s)), c)

\* str.isdigit(), and sum(c.isdigit() for c in s)
IsDigit(s) == s # <<>> /\ \A i \in 1..Len(s) : s[i] \in DigitChars
DigitCount(s) == Cardinality({i \in 1..Len(s) : s[i] \in DigitChars})

\* x in list
InList(x, list) == \E i \in 1..Len(list) : list[i] = x

----------------------------------------------------------------------------
(* String constants: the exclusion patterns of pre_filter_domains, and the
   texts the inputs below are built from *)

\* exclude_patterns of pre_filter_domains, in the order of the list
exclude_patterns ==
  << <<"f","a","c","e","b","o","o","k">>,
     <<"t","w","i","t","t","e","r">>,
     <<"i","n","s","t","a","g","r","a","m">>,
     <<"l","i","n","k","e","d","i","n">>,
     <<"y","o","u","t","u","b","e">>,
     <<"t","i","k","t","o","k">>,
     <<"p","i","n","t","e","r","e","s","t">>,
     <<"s","n","a","p","c","h","a","t">>,
     <<"r","e","d","d","i","t">>,
     <<"d","i","s","c","o","r","d">>,
     <<"w","h","a","t","s","a","p","p">>,
     <<"t","e","l","e","g","r","a","m">>,
     <<"t","u","m","b","l","r">>,
     <<"f","l","i","c","k","r">>,
     <<"v","i","m","e","o">>,
     <<"v","i","n","e">>,
     <<"c","n","n">>,
     <<"b","b","c">>,
     <<"r","e","u","t","e","r","s">>,
     <<"a","p">>,
     <<"n","y","t","i","m","e","s">>,
     <<"w","s","j">>,
     <<"w","a","s","h","i","n","g","t","o","n","p","o","s","t">>,
     <<"g","u","a","r","d","i","a","n">>,
     <<"t","i","m","e","s">>,
     <<"n","e","w","s">>,
     <<"a","r","t","i","c","l","e">>,
     <<"b","l","o","g">>,
     <<"p","r","e","s","s">>,
     <<"m","e","d","i","a">>,
     <<"j","o","u","r","n","a","l","i","s","t">>,
     <<"m","a","g","a","z","i","n","e">>,
     <<"n","e","w","s","p","a","p","e","r">>,
     <<"g","o","o","g","l","e">>,
     <<"b","i","n","g">>,
     <<"y","a","h","o","o">>,
     <<"d","u","c","k","d","u","c","k","g","o">>,
     <<"b","a","i","d","u">>,
     <<"s","e","a","r","c","h">>,
     <<"a","s","k">>,
     <<"d","o","g","p","i","l","e">>,
     <<"w","i","k","i","p","e","d","i","a">>,
     <<"w","i","k","i","m","e","d","i","a">>,
     <<"b","r","i","t","a","n","n","i","c","a">>,
     <<"i","m","d","b">>,
     <<"a","l","l","m","u","s","i","c">>,
     <<"m","u","s","i","c","b","r","a","i","n","z">>,
     <<"f","a","n","d","o","m">>,
     <<"w","i","k","i">>,
     <<"e","n","c","y","c","l","o","p","e","d","i","a">>,
     <<"r","e","f","e","r","e","n","c","e">>,
     <<"d","i","c","t","i","o","n","a","r","y">>,
     <<"t","h","e","s","a","u","r","u","s">>,
     <<"e","d","u">>,
     <<"u","n","i","v","e","r","s","i","t","y">>,
     <<"c","o","l","l","e","g","e">>,
     <<"s","c","h","o","o","l">>,
     <<"a","c","a","d","e","m","i","c">>,
     <<"r","e","s","e","a","r","c","h">>,
     <<"i","n","s","t","i","t","u","t","e">>,
     <<"e","m","a","i","l">>,
     <<"m","a","i","l">>,
     <<"h","o","s","t","i","n","g">>,
     <<"s","e","r","v","e","r">>,
     <<"c","l","o","u","d">>,
     <<"s","t","o","r","a","g","e">>,
     <<"b","a","c","k","u","p">>,
     <<"d","o","m","a","i","n">>,
     <<"w","h","o","i","s">>,
     <<"d","n","s">>,
     <<"s","s","l">>,
     <<"c","e","r","t">>,
     <<"s","e","c","u","r","i","t","y">>,
     <<"f","i","r","e","w","a","l","l">>,
     <<"a","n","t","i","v","i","r","u","s">>,
     <<"a","m","a","z","o","n">>,
     <<"e","b","a","y">>,
     <<"a","l","i","b","a","b","a">>,
     <<"e","t","s","y">>,
     <<"s","h","o","p","i","f","y">>,
     <<"s","t","o","r","e">>,
     <<"s","h","o","p">>,
     <<"m","a","r","k","e","t","p","l","a","c","e">>,
     <<"e","c","o","m","m","e","r","c","e">>,
     <<"r","e","t","a","i","l">>,
     <<"b","u","y">>,
     <<"s","e","l","l">>,
     <<"c","a","r","t">>,
     <<"c","h","e","c","k","o","u","t">>,
     <<"p","a","y","m","e","n","t">>,
     <<"g","i","t","h","u","b">>,
     <<"g","i","t","l","a","b">>,
     <<"s","t","a","c","k","o","v","e","r","f","l","o","w">>,
     <<"a","w","s">>,
     <<"a","z","u","r","e">>,
     <<"g","c","p">>,
     <<"d","i","g","i","t","a","l","o","c","e","a","n">>,
     <<"h","e","r","o","k","u">>,
     <<"n","e","t","l","i","f","y">>,
     <<"v","e","r","c","e","l">>,
     <<"c","l","o","u","d","f","l","a","r","e">>,
     <<"j","s","d","e","l","i","v","r">>,
     <<"u","n","p","k","g">>,
     <<"d","r","o","p","b","o","x">>,
     <<"d","r","i","v","e">>,
     <<"o","n","e","d","r","i","v","e">>,
     <<"i","c","l","o","u","d">>,
     <<"b","o","x">>,
     <<"m","e","g","a">>,
     <<"m","e","d","i","a","f","i","r","e">>,
     <<"f","i","l","e">>,
     <<"d","o","w","n","l","o","a","d">>,
     <<"u","p","l","o","a","d">>,
     <<"s","h","a","r","e">>,
     <<"s","y","n","c">>,
     <<"f","r","e","e">>,
     <<"o","n","l","i","n","e">>,
     <<"w","e","b">>,
     <<"s","i","t","e">>,
     <<"p","a","g","e">>,
     <<"h","o","m","e">>,
     <<"w","w","w">>,
     <<"h","t","t","p">>,
     <<"h","t","t","p","s">>,
     <<"t","e","s","t">>,
     <<"d","e","m","o">>,
     <<"e","x","a","m","p","l","e">>,
     <<"s","a","m","p","l","e">>,
     <<"t","m","p">>,
     <<"t","e","m","p">>,
     <<"d","e","v">>,
     <<"s","t","a","g","i","n","g">>,
     <<"a","p","i">>,
     <<"c","d","n">>,
     <<"s","t","a","t","i","c">>,
     <<"a","s","s","e","t","s">>,
     <<"i","m","a","g","e","s">>,
     <<"i","m","g">>,
     <<"p","h","o","t","o","s">>,
     <<"p","i","c","s">> >>

str_acme == <<"a","c","m","e">>

str_Acme == <<"A","c","m","e">>

str_acmecorp == <<"a","c","m","e","c","o","r","p">>

str_acme_news == <<"a","c","m","e","-","n","e","w","s">>

str_newsacme == <<"n","e","w","s","a","c","m","e">>

str_my_acme == <<"m","y","-","a","c","m","e">>

str_a_cme == <<"a","-","c","m","e">>

str_hp == <<"h","p">>

str_hp_news == <<"h","p","-","n","e","w","s">>

str_hpe == <<"h","p","e">>

str_facebook == <<"f","a","c","e","b","o","o","k">>

str_wikipedia == <<"w","i","k","i","p","e","d","i","a">>

str_tesla == <<"t","e","s","l","a">>

str_Tesla == <<"T","e","s","l","a">>

str_none == <<"n","o","n","e">>

str_n12345 == <<"1","2","3","4","5">>

str_n1234567x == <<"1","2","3","4","5","6","7","x","y","z">>

str_n12345678x == <<"1","2","3","4","5","6","7","8","x","y">>

str_x_jpg == <<"x",".","j","p","g">>

str_zq == <<"z","q">>

str_zqr == <<"z","q","r">>

str_com == <<"c","o","m">>

str_net == <<"n","e","t">>

str_co_uk == <<"c","o",".","u","k">>

str_DE == <<"D","E">>

str_de == <<"d","e">>

str_dot_com == <<".","c","o","m">>

str_tesla_com == <<"t","e","s","l","a",".","c","o","m">>

str_acme_com == <<"a","c","m","e",".","c","o","m">>

str_https_www == <<"h","t","t","p","s",":","/","/","w","w","w",".">>

str_site_www == <<"s","i","t","e",":","w","w","w",".">>

str_dot_star == <<".","*">>

str_localhost == <<"l","o","c","a","l","h","o","s","t">>

str_a_cme_news == <<"a","-","c","m","e","-","n","e","w","s">>

str_org == <<"o","r","g">>

str_CO_UK == <<"C","O",".","U","K">>

str_apa == <<"a","p","a">>

str_ap == <<"a","p">>

str_sp_Tesla_com == <<" ","T","e","s","l","a",".","c","o","m"," ">>

str_tesla_nl == <<"t","e","s","l","a","\n">>

str_facebook_com == <<"f","a","c","e","b","o","o","k",".","c","o","m">>

FileExtTokens ==
  << <<".","j","p","g">>, <<".","p","n","g">>, <<".","g","i","f">>,
     <<".","p","d","f">>, <<".","d","o","c">>, <<".","z","i","p">> >>

----------------------------------------------------------------------------
(* pre_filter_domains (streamlit_ui.py) *)

\* company_lower = company_name.lower() if company_name else ""
company_lower_of(cname) == IF cname # <<>> THEN Lower(cname) ELSE <<>>

\* the PROTECTION test of one domain
is_company_domain_NoHyphen(domain_lower, company_lower) ==
  /\ company_lower # <<>>
  /\ Len(company_lower) > 2
  /\ \/ StartsWith(domain_lower, company_lower)
     \/ /\ Contains(domain_lower, company_lower)
        /\ \/ StartsWith(domain_lower, company_lower)
           \/ EndsWith(domain_lower, company_lower)

is_company_domain(domain_lower, company_lower) ==
  /\ company_lower # <<>>
  /\ Len(company_lower) > 2
  /\ \/ StartsWith(domain_lower, company_lower)
     \/ StartsWith(Replace(domain_lower, <<"-">>, <<>>), company_lower)
     \/ /\ Contains(domain_lower, company_lower)
        /\ \/ StartsWith(domain_lower, company_lower)
           \/ StartsWith(Replace(domain_lower, <<"-">>, <<>>), company_lower)
           \/ EndsWith(domain_lower, company_lower)

\* should_exclude of a domain that is not protected
should_exclude_NoRatio(domain_lower) ==
  \/ \E k \in 1..Len(exclude_patterns) : Contains(domain_lower, exclude_patterns[k])
  \/ IsDigit(domain_lower)
  \/ Len(domain_lower) <= 2
  \/ \E k \in 1..Len(FileExtTokens) : Contains(domain_lower, FileExtTokens[k])

should_exclude(domain_lower) ==
  \/ \E k \in 1..Len(exclude_patterns) : Contains(domain_lower, exclude_patterns[k])
  \/ IsDigit(domain_lower)
  \/ Len(domain_lower) <= 2
  \/ \E k \in 1..Len(FileExtTokens) : Contains(domain_lower, FileExtTokens[k])
  \/ 10 * DigitCount(domain_lower) > 7 * Len(domain_lower)

\* whether the loop body appends the domain to filtered_domains
pre_filter_keeps(domain, cname) ==
  \/ is_company_domain(Lower(domain), company_lower_of(cname))
  \/ ~should_exclude(Lower(domain))

pre_filter_domains(ds, cname) ==
  SelectSeq(ds, LAMBDA d : pre_filter_keeps(d, cname))

----------------------------------------------------------------------------
(* filter_social_and_news_domains_llm *)

MapSeq(F(_), s) == [i \in 1..Len(s) |-> F(s[i])]

\* if not openai_client or not domains: return domains
skips_filter_EmptyOnly(client, ds) == ds = <<>>

skips_filter(client, ds) == ~client \/ ds = <<>>

\* the labels parsed from the model's answer
\* domain_search.py: [d.strip().lower() for d in answer.split(',') if d.strip()]
parse_domain_search(answer) ==
  MapSeq(LAMBDA d : Lower(Strip(d)),
         SelectSeq(Split(answer, ","), LAMBDA d : Strip(d) # <<>>))

\* try_streamlit.py: [d.strip().replace('.com', '') for d in answer.split(',') if d.strip()]
parse_try_streamlit(answer) ==
  MapSeq(LAMBDA d : Replace(Strip(d), str_dot_com, <<>>),
         SelectSeq(Split(answer, ","), LAMBDA d : Strip(d) # <<>>))

\* streamlit_ui.py: clean_domain = domain.strip().replace('.com', '').replace('.', '')
clean_domain(d) == Replace(Replace(Strip(d), str_dot_com, <<>>), <<".">>, <<>>)

parse_streamlit_ui(answer) ==
  IF answer # <<>> /\ answer # str_none
  THEN SelectSeq(MapSeq(clean_domain, Split(answer, ",")),
                 LAMBDA c : c # <<>> /\ c # str_none)
  ELSE <<>>

parse_flagged(v, answer) ==
  CASE v = "domain_search" -> parse_domain_search(answer)
    [] v = "streamlit_ui"  -> parse_streamlit_ui(answer)
    [] v = "try_streamlit" -> parse_try_streamlit(answer)

keep_unflagged_Flagged(v, ds, flagged) == flagged

\* the domains kept, given the flagged labels
\* domain_search.py: d.lower() not in excluded_domains; the others: d not in flagged_domains
keep_unflagged(v, ds, flagged) ==
  IF v = "domain_search"
  THEN SelectSeq(ds, LAMBDA d : ~InList(Lower(d), flagged))
  ELSE SelectSeq(ds, LAMBDA d : ~InList(d, flagged))

\* the list the prompt is built from: streamlit_ui.py prefilters first
candidates_of(v, ds, cname) ==
  IF v = "streamlit_ui" THEN pre_filter_domains(ds, cname) ELSE ds

\* except Exception as e: print(...); return the (pre-filtered) domains
failure_result_Input(ds, cands) == ds

failure_result(ds, cands) == cands

\* One call. reply is what the model API does if it is asked: kind "ok" with the
\* message text, kind "error" (the request raises) or kind "no_content" (the
\* message has no text, so .strip() raises inside the try). The record is the
\* returned list with what the call did on the way.
filter_social_and_news_domains_llm(v, client, ds, cname, reply) ==
  IF skips_filter(client, ds)
  THEN [result |-> ds, pre_filter_calls |-> 0, llm_requests |-> 0,
        candidates |-> <<>>, flagged |-> <<>>, failed |-> FALSE]
  ELSE
    LET cands == candidates_of(v, ds, cname)
        pcalls == IF v = "streamlit_ui" THEN 1 ELSE 0
    IN IF v = "streamlit_ui" /\ cands = <<>>
       THEN [result |-> <<>>, pre_filter_calls |-> pcalls, llm_requests |-> 0,
             candidates |-> cands, flagged |-> <<>>, failed |-> FALSE]
       ELSE IF ~client \/ reply.kind # "ok"
       THEN [result |-> failure_result(ds, cands), pre_filter_calls |-> pcalls,
             llm_requests |-> IF client THEN 1 ELSE 0,
             candidates |-> cands, flagged |-> <<>>, failed |-> TRUE]
       ELSE LET answer == Lower(Strip(reply.text))
                flagged == parse_flagged(v, answer)
            IN [result |-> keep_unflagged(v, cands, flagged),
                pre_filter_calls |-> pcalls, llm_requests |-> 1,
                candidates |-> cands, flagged |-> flagged, failed |-> FALSE]

\* @st.cache_data(show_spinner=False): the arguments are the key of the stored
\* return value; try_streamlit.py's function has the domains as its only argument
cache_key(ds, cname) == <<ds, cname>>

cache_hit_Never(store, key) == FALSE

cache_hit(store, key) == \E e \in store : e.args = key

cache_value(store, key) == (CHOOSE e \in store : e.args = key).value

\* One call of the decorated function: the stored value on a hit, and on a miss
\* the body runs and its return value is stored.
cached_filter(store, v, client, ds, cname, reply) ==
  IF cache_hit(store, cache_key(ds, cname))
  THEN [out |-> [result |-> cache_value(store, cache_key(ds, cname)),
                 pre_filter_calls |-> 0, llm_requests |-> 0,
                 candidates |-> <<>>, flagged |-> <<>>, failed |-> FALSE],
        store |-> store]
  ELSE LET body == filter_social_and_news_domains_llm(v, client, ds, cname, reply)
       IN [out |-> body,
           store |-> store \cup {[args |-> cache_key(ds, cname), value |-> body.result]}]

----------------------------------------------------------------------------
(* Inputs of the filter calls *)

MaxDomains == 2      \* longest enumerated domain list
MaxSmallLen == 3     \* longest enumerated domain over SmallAlphabet
MaxEntries == 2      \* most comma-separated entries in a model answer

Strings(alphabet, lo, hi) == UNION {[1..n -> alphabet] : n \in lo..hi}

RECURSIVE Join(_, _)
Join(parts, sep) ==
  IF Len(parts) = 0 THEN <<>>
  ELSE IF Len(parts) = 1 THEN parts[1]
  ELSE parts[1] \o sep \o Join(Tail(parts), sep)

ExampleDomains == <<str_facebook, str_wikipedia, str_acmecorp>>

SmallAlphabet == {"a", "p", "1", "-"}

PreFilterPool ==
  {str_acme, str_acmecorp, str_acme_news, str_newsacme, str_my_acme, str_a_cme, str_a_cme_news,
   str_hp, str_hp_news, str_hpe, str_facebook, str_wikipedia, str_tesla,
   str_Tesla, str_n12345, str_n1234567x, str_n12345678x, str_x_jpg, str_zq,
   str_zqr}

PairPool == {str_acme_news, str_hp_news, str_tesla, str_facebook}

PreFilterInputs ==
  {<<d>> : d \in PreFilterPool \cup Strings(SmallAlphabet, 1, MaxSmallLen)}
    \cup Strings(PairPool, 0, MaxDomains) \cup {ExampleDomains}

Companies == {<<>>, str_acme, str_Acme, str_hp, str_apa, str_ap}

FilterPool ==
  {str_tesla, str_Tesla, str_tesla_com, str_acme_news, str_none}

FilterInputs == Strings(FilterPool, 0, MaxDomains) \cup {ExampleDomains}

FilterCompanies == {<<>>, str_acme}

ReplyEntries ==
  {<<>>, str_none, str_sp_Tesla_com, str_tesla_nl, str_acme_news}

NoReply == [kind |-> "none", text |-> <<>>]

Replies ==
  {[kind |-> "error", text |-> <<>>], [kind |-> "no_content", text |-> <<>>]}
    \cup {[kind |-> "ok", text |-> Join(es, <<",">>)] :
            es \in Strings(ReplyEntries, 1, MaxEntries)}

\* the calls that are repeated within one session
CacheDomainLists == {<<str_tesla>>, <<str_acme_news, str_tesla>>}

CacheReplies ==
  {[kind |-> "error", text |-> <<>>],
   [kind |-> "ok", text |-> str_tesla],
   [kind |-> "ok", text |-> str_none]}

----------------------------------------------------------------------------
(* search_google *)

Min(a, b) == IF a <= b THEN a ELSE b

max_results_per_request == 10
MaxRequestsCap == 10         \* min(10, ...): "Limit to 10 requests max"
GoogleApiLimit == 100        \* if start_index > 100: break

\* A result URL is what tldextract reads in it (the registrable label and the
\* public suffix of its host, either possibly empty) and a path.
Url(d, s, p) == [domain |-> d, suffix |-> s, path |-> p]

\* The provider's answer to the k-th request of a call that asks for n results:
\* an error page as it is, a result page cut to the n results asked for, an empty
\* page beyond the pages it has.
ProviderAnswer(pp, k, n) ==
  IF k > Len(pp) THEN [kind |-> "ok", links |-> <<>>]
  ELSE IF pp[k].kind = "ok"
       THEN [kind |-> "ok", links |-> SubSeq(pp[k].links, 1, Min(n, Len(pp[k].links)))]
       ELSE pp[k]

\* whether the call goes on to the HTTP requests
\* domain_search.py: the key is read from the session (st.stop() without it),
\* the engine id from the environment; streamlit_ui.py: both from the
\* environment; try_streamlit.py checks nothing
credentials_outcome(v, key, cx) ==
  CASE v = "domain_search" ->
         IF ~key THEN "stopped" ELSE IF ~cx THEN "return_empty" ELSE "go"
    [] v = "streamlit_ui" -> IF ~key \/ ~cx THEN "return_empty" ELSE "go"
    [] v = "try_streamlit" -> "go"

\* "num" of one request: domain_search.py asks for what is still missing
page_size(v, n, all_links) ==
  IF v = "domain_search" THEN Min(max_results_per_request, n - Len(all_links))
  ELSE max_results_per_request

google_catches_NoTry(kind) == FALSE

\* except Exception: ... break, around the request and the reading of its answer
google_catches(kind) == kind \in {"exc", "badbody"}

returned_links_All(all_links, n) == all_links

\* return all_links[:num]
returned_links(all_links, n) == SubSeq(all_links, 1, Min(n, Len(all_links)))

\* the for loop of the Google scripts from index i on
RECURSIVE google_loop(_, _, _, _, _, _)
google_loop(v, n, pp, i, all_links, requests) ==
  LET max_requests == Min(MaxRequestsCap, (n \div max_results_per_request) + 1)
      start_index == i * max_results_per_request + 1
      done(al, rq) == [outcome |-> "returned",
                       links |-> returned_links(al, n), requests |-> rq]
  IN IF i >= max_requests \/ start_index > GoogleApiLimit
     THEN done(all_links, requests)
     ELSE LET size == page_size(v, n, all_links)
              rq == Append(requests, [start |-> start_index, num |-> size])
              resp == ProviderAnswer(pp, i + 1, size)
          IN IF resp.kind = "ok"
             THEN IF Len(resp.links) < max_results_per_request
                  THEN done(all_links \o resp.links, rq)
                  ELSE google_loop(v, n, pp, i + 1, all_links \o resp.links, rq)
             ELSE IF resp.kind = "status" \/ google_catches(resp.kind)
             THEN done(all_links, rq)
             ELSE [outcome |-> "raised", links |-> <<>>, requests |-> rq]

\* try_streamlit.py: one POST, outside any try
serper_search(n, pp) ==
  LET resp == ProviderAnswer(pp, 1, n)
      rq == <<[start |-> 1, num |-> n]>>
  IN IF resp.kind = "ok"
     THEN [outcome |-> "returned", links |-> resp.links, requests |-> rq]
     ELSE IF resp.kind = "status"
     THEN [outcome |-> "returned", links |-> <<>>, requests |-> rq]
     ELSE [outcome |-> "raised", links |-> <<>>, requests |-> rq]

\* One call of search_google(query, num): how it ended ("returned", "raised" an
\* exception, "stopped" the script run by st.stop()), the list returned, the HTTP
\* requests made, and whether the missing credentials were reported.
search_google(v, key, cx, n, pp) ==
  LET c == credentials_outcome(v, key, cx)
  IN IF c = "stopped"
     THEN [outcome |-> "stopped", links |-> <<>>, requests |-> <<>>, reported |-> TRUE]
     ELSE IF c = "return_empty"
     THEN [outcome |-> "returned", links |-> <<>>, requests |-> <<>>, reported |-> TRUE]
     ELSE LET r == IF v = "try_streamlit" THEN serper_search(n, pp)
                   ELSE google_loop(v, n, pp, 0, <<>>, <<>>)
          IN [outcome |-> r.outcome, links |-> r.links, requests |-> r.requests,
              reported |-> FALSE]

----------------------------------------------------------------------------
(* Inputs of the search_google calls *)

MaxNum == 25         \* the limits 0..MaxNum are enumerated, besides the call sites'
MaxFullPages == 11   \* the provider has at most this many full pages

ExpandNumDomainSearch == 100     \* get_all_domains: search_google(query, num=100)
ExpandNumStreamlitUi == 400      \* get_all_domains: search_google(query, num=400)
ExpandNumTryStreamlit == 40      \* get_all_domains: search_google(query, num=40)

Nums ==
  (0..MaxNum) \cup {ExpandNumDomainSearch, ExpandNumStreamlitUi, ExpandNumTryStreamlit}

ShortSizes == {0, 1, 9}

ErrorPage(kind) == [kind |-> kind, links |-> <<>>]

\* the p-th result page of the provider, n results long: results 10(p-1)+1 ...
ResultPage(p, n) ==
  [kind |-> "ok",
   links |-> [j \in 1..n |-> Url(str_acme, str_com, max_results_per_request * (p - 1) + j)]]

FullPages(k) == [p \in 1..k |-> ResultPage(p, max_results_per_request)]

LastPages(p) ==
  {<<>>} \cup {<<ResultPage(p, n)>> : n \in ShortSizes}
         \cup {<<ErrorPage(kind)>> : kind \in {"status", "exc", "badbody"}}

PageSeqs == UNION {{FullPages(k) \o last : last \in LastPages(k + 1)} : k \in 0..MaxFullPages}

\* a request without its API key is refused by the provider (try_streamlit.py
\* sends it all the same)
Provider(v, key, pp) ==
  IF v = "try_streamlit" /\ ~key THEN <<ErrorPage("status")>> ELSE pp

----------------------------------------------------------------------------
(* get_all_domains *)

\* code points, for sorted()
CodeOrder ==
  <<" ", "*", ",", "-", ".", "/",
    "0","1","2","3","4","5","6","7","8","9", ":",
    "A","B","C","D","E","F","G","H","I","J","K","L","M",
    "N","O","P","Q","R","S","T","U","V","W","X","Y","Z",
    "a","b","c","d","e","f","g","h","i","j","k","l","m",
    "n","o","p","q","r","s","t","u","v","w","x","y","z">>

Ord(c) == CHOOSE i \in 1..Len(CodeOrder) : CodeOrder[i] = c

\* s < t for str
RECURSIVE StrLess(_, _)
StrLess(s, t) ==
  IF t = <<>> THEN FALSE
  ELSE IF s = <<>> THEN TRUE
  ELSE IF Head(s) = Head(t) THEN StrLess(Tail(s), Tail(t))
  ELSE Ord(Head(s)) < Ord(Head(t))

\* sorted(set of str)
RECURSIVE Sorted(_)
Sorted(S) ==
  IF S = {} THEN <<>>
  ELSE LET m == CHOOSE x \in S : \A y \in S \ {x} : StrLess(x, y)
       IN <<m>> \o Sorted(S \ {m})

\* f"https://www.{label}.{suffix}"
www_url(label, suffix) == str_https_www \o label \o <<".">> \o suffix

\* found_domains.add(f"https://www.{root}.com")
seed_domains_Empty(r) == {}

seed_domains(r) == {www_url(r, str_com)}

\* f"site:www.{root}.*" + (" " + " ".join(f"-{tld}" for tld in sorted(excluded_tlds))
\*                         if excluded_tlds else "")
exclusion_terms_SeedOnly(excl) == <<<<"-">> \o str_com>>

exclusion_terms(excl) == MapSeq(LAMBDA tld : <<"-">> \o tld, Sorted(excl))

build_query(r, excl) ==
  str_site_www \o r \o str_dot_star
    \o (IF excl # {} THEN <<" ">> \o Join(exclusion_terms(excl), <<" ">>) ELSE <<>>)

\* if ext.domain.lower() == root and ext.suffix
link_matches(link, r) == Lower(link.domain) = r /\ link.suffix # <<>>

\* the for loop over the links: what it adds to found_domains and excluded_tlds
new_urls(ls, r) ==
  {www_url(Lower(ls[i].domain), Lower(ls[i].suffix)) :
     i \in {j \in 1..Len(ls) : link_matches(ls[j], r)}}

new_tlds_RawSuffix(ls, r) ==
  {ls[i].suffix : i \in {j \in 1..Len(ls) : link_matches(ls[j], r)}}

new_tlds(ls, r) ==
  {Lower(ls[i].suffix) : i \in {j \in 1..Len(ls) : link_matches(ls[j], r)}}

\* num of the search_google call in get_all_domains
expand_num(v) ==
  CASE v = "domain_search" -> ExpandNumDomainSearch
    [] v = "streamlit_ui"  -> ExpandNumStreamlitUi
    [] v = "try_streamlit" -> ExpandNumTryStreamlit

----------------------------------------------------------------------------
(* Inputs of the get_all_domains calls *)

MaxIter == 4         \* loop iterations followed per call

ExpandRoots == {str_acme, str_acme_com}

OkPage(ls) == [kind |-> "ok", links |-> ls]

\* what the provider answers to one query: nothing, a short page, an error, or a
\* full page and then nothing
ExpandPageSeqs ==
  {<<>>,
   <<OkPage(<<Url(str_acme, str_net, 1)>>)>>,
   <<OkPage(<<Url(str_Acme, str_DE, 1)>>)>>,
   <<OkPage(<<Url(str_acme, str_co_uk, 1), Url(str_acme, str_net, 2)>>)>>,
   <<OkPage(<<Url(str_acmecorp, str_org, 1)>>)>>,
   <<OkPage(<<Url(str_acme, <<>>, 1), Url(str_acme, str_com, 1)>>)>>,
   <<OkPage([j \in 1..max_results_per_request |-> Url(str_acme, str_net, j)])>>,
   <<ErrorPage("status")>>,
   <<ErrorPage("exc")>>,
   <<ErrorPage("badbody")>>}

----------------------------------------------------------------------------
(* extract_root_domains and the ranking of main's search handler *)

\* domain_search.py, try_streamlit.py: the lowercased label of every link that has
\* a label and a suffix
extract_labels(ls) ==
  MapSeq(LAMBDA l : Lower(l.domain),
         SelectSeq(ls, LAMBDA l : l.domain # <<>> /\ l.suffix # <<>>))

\* streamlit_ui.py: the label when the suffix has a dot in it, and the full
\* domain, each only if not yet in roots
append_new(list, x) == IF InList(x, list) THEN list ELSE Append(list, x)

RECURSIVE extract_full(_, _)
extract_full(ls, acc) ==
  IF ls = <<>> THEN acc
  ELSE LET l == Head(ls)
           domain == Lower(l.domain)
           full_domain == domain \o <<".">> \o Lower(l.suffix)
       IN IF l.domain # <<>> /\ l.suffix # <<>>
          THEN extract_full(Tail(ls),
                 append_new(IF Contains(l.suffix, <<".">>) THEN append_new(acc, domain)
                            ELSE acc,
                            full_domain))
          ELSE extract_full(Tail(ls), acc)

extract_root_domains(v, ls) ==
  IF v = "streamlit_ui" THEN extract_full(ls, <<>>) ELSE extract_labels(ls)

\* "Remove duplicates while preserving order"
RECURSIVE dedupe(_, _)
dedupe(ls, acc) ==
  IF ls = <<>> THEN acc ELSE dedupe(Tail(ls), append_new(acc, Head(ls)))

\* [r for r, _ in Counter(roots).most_common()]: by count, largest first, equal
\* counts in the order of first occurrence
Count(x, list) == Cardinality({i \in 1..Len(list) : list[i] = x})

RECURSIVE by_count(_, _)
by_count(distinct, list) ==
  IF distinct = <<>> THEN <<>>
  ELSE LET i == CHOOSE k \in 1..Len(distinct) :
                  /\ \A j \in 1..Len(distinct) :
                       Count(distinct[j], list) <= Count(distinct[k], list)
                  /\ \A j \in 1..(k - 1) :
                       Count(distinct[j], list) < Count(distinct[k], list)
       IN <<distinct[i]>>
            \o by_count(SubSeq(distinct, 1, i - 1) \o SubSeq(distinct, i + 1, Len(distinct)),
                        list)

most_common_of(list) == by_count(dedupe(list, <<>>), list)

\* the search queries of one click: five templates, try_streamlit.py the company
NumQueries(v) == IF v = "try_streamlit" THEN 1 ELSE 5

RootsNumGoogle == 10          \* search_google(query, num=10)
RootsNumSerper == 40          \* search_google(company, num=40)

roots_num(v) == IF v = "try_streamlit" THEN RootsNumSerper ELSE RootsNumGoogle

\* the searches of one click, one after the other: the links of all of them, or
\* how the first one that did not return ended
RECURSIVE run_searches(_, _, _, _, _)
run_searches(v, key, cx, pps, acc) ==
  IF pps = <<>> THEN [outcome |-> "returned", links |-> acc]
  ELSE LET got == search_google(v, key, cx, roots_num(v), Provider(v, key, Head(pps)))
       IN IF got.outcome # "returned" THEN [outcome |-> got.outcome, links |-> <<>>]
          ELSE run_searches(v, key, cx, Tail(pps), acc \o got.links)

links_to_extract_SeenKept(v, all_links) ==
  SelectSeq(dedupe(all_links, <<>>), LAMBDA l : ~InList(l, unique_links))

\* try_streamlit.py extracts from the links as returned
links_to_extract(v, all_links) == IF v = "try_streamlit" THEN all_links ELSE dedupe(all_links, <<>>)

----------------------------------------------------------------------------
(* Inputs of the search handler *)

MainCompanies == {<<>>, str_Acme}

UrlA1 == Url(str_acme, str_com, 1)
UrlA2 == Url(str_acme, str_com, 2)
UrlA3 == Url(str_Acme, str_co_uk, 3)
UrlB1 == Url(str_tesla, str_com, 1)
UrlB2 == Url(str_tesla, str_com, 2)
UrlC1 == Url(str_facebook, str_com, 1)
UrlNoSuffix == Url(str_localhost, <<>>, 1)
UrlNoHost == Url(<<>>, <<>>, 1)

\* what the provider answers to one query
MainPageSeqs ==
  {<<OkPage(<<UrlA1, UrlB1, UrlA2, UrlC1, UrlB2, UrlA3>>)>>,
   <<OkPage(<<UrlB1, UrlNoSuffix, UrlA1, UrlA2, UrlNoHost>>)>>,
   <<OkPage(<<UrlNoSuffix, UrlNoHost>>)>>,
   <<ErrorPage("exc")>>}

\* what the provider answers to the queries of one click
MainRuns(v) ==
  IF NumQueries(v) = 1
  THEN {<<p>> : p \in MainPageSeqs}
  ELSE {[i \in 1..NumQueries(v) |-> p] : p \in MainPageSeqs}
         \cup {<<<<OkPage(<<UrlA1, UrlB1, UrlA2, UrlC1, UrlB2, UrlA3>>)>>,
                 <<OkPage(<<UrlB1, UrlNoSuffix, UrlA1, UrlA2, UrlNoHost>>)>>,
                 <<ErrorPage("exc")>>,
                 <<OkPage(<<UrlB1, UrlNoSuffix, UrlA1, UrlA2, UrlNoHost>>)>>,
                 <<OkPage(<<UrlA1, UrlB1, UrlA2, UrlC1, UrlB2, UrlA3>>)>>>>,
               <<<<OkPage(<<UrlB1, UrlNoSuffix, UrlA1, UrlA2, UrlNoHost>>)>>,
                 <<ErrorPage("exc")>>,
                 <<OkPage(<<UrlNoSuffix, UrlNoHost>>)>>,
                 <<ErrorPage("exc")>>,
                 <<OkPage(<<UrlC1, UrlB2>>)>>>>}

MainReplies ==
  {[kind |-> "error", text |-> <<>>],
   [kind |-> "ok", text |-> Join(<<str_tesla_com, str_facebook>>, <<",", " ">>)]}

----------------------------------------------------------------------------
(* main: the root table and its buttons *)

\* roots = [r for r in root_options if r not in deleted_roots]
displayed_roots(opts, deleted) == SelectSeq(opts, LAMBDA r : r \notin deleted)

\* if root not in st.session_state['expanded_domains']: the "Find all domains"
\* button is drawn
find_offered_Always(r, expanded) == TRUE

find_offered(r, expanded) == r \notin DOMAIN expanded

\* d[k] = v
dict_set(d, k, v) == [x \in DOMAIN d \cup {k} |-> IF x = k THEN v ELSE d[x]]

\* d.get(k, set())
dict_get(d, k) == IF k \in DOMAIN d THEN d[k] ELSE {}

\* get_all_domains(root), the whole call: the provider's answers to the
\* successive queries are given; "running" when the loop has not ended after them
RECURSIVE get_all_domains_loop(_, _, _, _, _, _, _)
get_all_domains_loop(v, key, cx, r, found, excl, answers) ==
  IF answers = <<>> THEN [outcome |-> "running", domains |-> <<>>]
  ELSE LET got == search_google(v, key, cx, expand_num(v),
                                Provider(v, key, Head(answers)))
       IN IF got.outcome # "returned"
          THEN [outcome |-> got.outcome, domains |-> <<>>]
          ELSE IF got.links = <<>>
          THEN [outcome |-> "returned", domains |-> Sorted(found)]
          ELSE get_all_domains_loop(v, key, cx, r,
                                    found \cup new_urls(got.links, r),
                                    excl \cup new_tlds(got.links, r),
                                    Tail(answers))

get_all_domains(v, key, cx, r, answers) ==
  get_all_domains_loop(v, key, cx, r, seed_domains(r), {str_com}, answers)

----------------------------------------------------------------------------
(* Inputs of the clicks on the root table *)

MaxExpandCalls == 3   \* get_all_domains calls followed between two resets

UICompanies == {str_Acme}

\* the same answer to every query of one click
SameRun(v, p) == IF NumQueries(v) = 1 THEN <<p>> ELSE [i \in 1..NumQueries(v) |-> p]

\* a search that finds tesla and acme, and one that finds no root
UIRuns(v) ==
  {SameRun(v, <<OkPage(<<UrlB1, UrlNoSuffix, UrlA1, UrlA2, UrlNoHost>>)>>),
   SameRun(v, <<OkPage(<<UrlNoSuffix, UrlNoHost>>)>>)}

UIReplies == {[kind |-> "error", text |-> <<>>]}

\* what the provider answers to the queries of one get_all_domains call: no
\* link; two suffixes of acme and then no link; a failed request; a link of
\* another label, again and again
UIAnswers ==
  {<<<<>>>>,
   <<<<OkPage(<<Url(str_acme, str_co_uk, 1), Url(str_acme, str_net, 2)>>)>>, <<>>>>,
   <<<<ErrorPage("exc")>>>>,
   <<<<OkPage(<<Url(str_acmecorp, str_org, 1)>>)>>,
     <<OkPage(<<Url(str_acmecorp, str_org, 1)>>)>>>>}

----------------------------------------------------------------------------
(* The state machine *)

NoOut ==
  [result |-> <<>>, pre_filter_calls |-> 0, llm_requests |-> 0,
   candidates |-> <<>>, flagged |-> <<>>, failed |-> FALSE]

NoSearch == [outcome |-> "none", links |-> <<>>, requests |-> <<>>, reported |-> FALSE]

IdleFilter ==
  /\ domains = <<>>
  /\ company_name = <<>>
  /\ llm_reply = NoReply
  /\ filter_out = NoOut

IdleSearch ==
  /\ num = 0
  /\ pages = <<>>
  /\ search_out = NoSearch

IdleExpand ==
  /\ pc = "idle"
  /\ root = <<>>
  /\ found_domains = {}
  /\ excluded_tlds = {}
  /\ links = <<>>
  /\ queries = <<>>
  /\ excluded_after = <<>>
  /\ result = <<>>

IdleMain ==
  /\ company = <<>>
  /\ unique_links = <<>>
  /\ roots = <<>>
  /\ most_common = <<>>
  /\ search_status = "none"
  /\ root_options = <<>>
  /\ provider_answers = <<>>
  /\ model_answer = NoReply

\* the empty dict
EmptyDict == [k \in {} |-> {}]

\* the session state as main creates it
IdleUI ==
  /\ expanded_domains = EmptyDict
  /\ deleted_roots = {}
  /\ deleted_domains = EmptyDict
  /\ table = <<>>
  /\ clicked = "none"
  /\ expand_calls = <<>>

\* the configuration is read once, when the script starts
Init ==
  /\ variant \in Variants
  /\ api_key_set \in BOOLEAN
  /\ engine_id_set \in BOOLEAN
  /\ llm_client \in BOOLEAN
  /\ op = "idle"
  /\ IdleFilter
  /\ IdleSearch
  /\ IdleExpand
  /\ IdleMain
  /\ cache = {}
  /\ IdleUI

\* pre_filter_domains(domains, company_name), which only streamlit_ui.py defines
CallPreFilter ==
  /\ op = "idle"
  /\ variant = "streamlit_ui"
  /\ \E ds \in PreFilterInputs, c \in Companies :
       /\ op' = "pre_filter_domains"
       /\ domains' = ds
       /\ company_name' = c
       /\ llm_reply' = NoReply
       /\ filter_out' = [NoOut EXCEPT !.result = pre_filter_domains(ds, c),
                                      !.pre_filter_calls = 1]
  /\ UNCHANGED <<configVars, searchVars, expandVars, mainVars, uiVars, cache>>

\* the body of filter_social_and_news_domains_llm(domains, company_name), as
\* st.cache_data runs it for arguments it has not stored; try_streamlit.py's
\* takes the domains alone
CallFilterLlm ==
  /\ op = "idle"
  /\ \E ds \in FilterInputs, r \in Replies,
        c \in (IF variant = "try_streamlit" THEN {<<>>} ELSE FilterCompanies) :
       /\ op' = "filter_social_and_news_domains_llm"
       /\ domains' = ds
       /\ company_name' = c
       /\ llm_reply' = r
       /\ filter_out' = filter_social_and_news_domains_llm(variant, llm_client, ds, c, r)
  /\ UNCHANGED <<configVars, searchVars, expandVars, mainVars, uiVars, cache>>

\* a call of the decorated filter_social_and_news_domains_llm in a session that
\* may have called it before
CallCachedFilter ==
  /\ op = "idle"
  /\ \E ds \in CacheDomainLists, r \in CacheReplies,
        c \in (IF variant = "try_streamlit" THEN {<<>>} ELSE FilterCompanies) :
       LET call == cached_filter(cache, variant, llm_client, ds, c, r)
       IN /\ op' = "cached_filter"
          /\ domains' = ds
          /\ company_name' = c
          /\ llm_reply' = r
          /\ filter_out' = call.out
          /\ cache' = call.store
  /\ UNCHANGED <<configVars, searchVars, expandVars, mainVars, uiVars>>

\* search_google(query, num)
CallSearchGoogle ==
  /\ op = "idle"
  /\ \E n \in Nums, pp \in PageSeqs :
       /\ op' = "search_google"
       /\ num' = n
       /\ pages' = Provider(variant, api_key_set, pp)
       /\ search_out' = search_google(variant, api_key_set, engine_id_set, n,
                                      Provider(variant, api_key_set, pp))
  /\ UNCHANGED <<configVars, filterVars, expandVars, mainVars, uiVars, cache>>

\* get_all_domains(root), up to the loop
CallGetAllDomains ==
  /\ op = "idle"
  /\ variant = "domain_search" => api_key_set
  /\ \E r \in ExpandRoots :
       /\ Contains(r, <<".">>) => variant = "streamlit_ui"
       /\ op' = "get_all_domains"
       /\ pc' = "loop"
       /\ root' = r
       /\ found_domains' = seed_domains(r)
       /\ excluded_tlds' = {str_com}
  /\ UNCHANGED <<links, queries, excluded_after, result>>
  /\ UNCHANGED <<configVars, filterVars, searchVars, mainVars, uiVars, cache>>

\* one pass of "while True": the query, the search_google call, and either the
\* break and the return or the for loop over the links
GetAllDomainsIterate ==
  /\ op = "get_all_domains"
  /\ pc = "loop"
  /\ Len(queries) < MaxIter
  /\ \E pp \in ExpandPageSeqs :
       LET query == build_query(root, excluded_tlds)
           got == search_google(variant, api_key_set, engine_id_set,
                                expand_num(variant), Provider(variant, api_key_set, pp))
       IN /\ queries' = Append(queries, query)
          /\ num' = expand_num(variant)
          /\ pages' = Provider(variant, api_key_set, pp)
          /\ search_out' = got
          /\ IF got.outcome # "returned"
             THEN /\ pc' = got.outcome
                  /\ UNCHANGED <<found_domains, excluded_tlds, links, excluded_after, result>>
             ELSE IF got.links = <<>>
             THEN /\ pc' = "returned"
                  /\ links' = got.links
                  /\ result' = Sorted(found_domains)
                  /\ UNCHANGED <<found_domains, excluded_tlds, excluded_after>>
             ELSE /\ pc' = "loop"
                  /\ links' = got.links
                  /\ found_domains' = found_domains \cup new_urls(got.links, root)
                  /\ excluded_tlds' = excluded_tlds \cup new_tlds(got.links, root)
                  /\ excluded_after' =
                       Append(excluded_after, excluded_tlds \cup new_tlds(got.links, root))
                  /\ UNCHANGED result
  /\ UNCHANGED <<op, root>>
  /\ UNCHANGED <<configVars, filterVars, mainVars, uiVars, cache>>

\* the call is over; the next one starts from idle
Return ==
  /\ op # "idle"
  /\ op = "get_all_domains" => pc # "loop"
  /\ op' = "idle"
  /\ domains' = <<>> /\ company_name' = <<>>
  /\ llm_reply' = NoReply /\ filter_out' = NoOut
  /\ num' = 0 /\ pages' = <<>> /\ search_out' = NoSearch
  /\ pc' = "idle" /\ root' = <<>>
  /\ found_domains' = {} /\ excluded_tlds' = {}
  /\ links' = <<>> /\ queries' = <<>> /\ excluded_after' = <<>> /\ result' = <<>>
  /\ UNCHANGED <<configVars, mainVars, uiVars, cache>>

\* main: a click on "Search for Root Domains", the whole handler and the table
\* drawn after it. domain_search.py returns from main before the button when the
\* session has no API key.
SearchClick(cs, runs, replies) ==
  /\ op = "idle"
  /\ variant = "domain_search" => api_key_set
  /\ \E c \in cs, pps \in runs, r \in replies :
       LET searched == run_searches(variant, api_key_set, engine_id_set, pps, <<>>)
           ul == links_to_extract(variant, searched.links)
           rs == extract_root_domains(variant, ul)
           mc == most_common_of(rs)
           call == cached_filter(cache, variant, llm_client, mc,
                                 IF variant = "try_streamlit" THEN <<>> ELSE c, r)
       IN /\ company' = c
          /\ provider_answers' = pps
          /\ model_answer' = r
          /\ clicked' = "search"
          /\ IF c = <<>>
             THEN \* st.warning("Please enter a company name.")
                  /\ search_status' = "no_company"
                  /\ table' = displayed_roots(root_options, deleted_roots)
                  /\ UNCHANGED <<unique_links, roots, most_common, root_options, cache>>
                  /\ UNCHANGED <<expanded_domains, deleted_roots, deleted_domains,
                                 expand_calls>>
             ELSE IF searched.outcome # "returned"
             THEN \* the script run ends in search_google, before the table
                  /\ search_status' = searched.outcome
                  /\ table' = <<>>
                  /\ UNCHANGED <<unique_links, roots, most_common, root_options, cache>>
                  /\ UNCHANGED <<expanded_domains, deleted_roots, deleted_domains,
                                 expand_calls>>
             ELSE IF rs = <<>>
             THEN \* st.warning("No root domains found in search results.")
                  /\ search_status' = "no_roots"
                  /\ unique_links' = ul
                  /\ roots' = rs
                  /\ table' = displayed_roots(root_options, deleted_roots)
                  /\ UNCHANGED <<most_common, root_options, cache>>
                  /\ UNCHANGED <<expanded_domains, deleted_roots, deleted_domains,
                                 expand_calls>>
             ELSE /\ search_status' = "ok"
                  /\ unique_links' = ul
                  /\ roots' = rs
                  /\ most_common' = mc
                  /\ root_options' = call.out.result
                  /\ cache' = call.store
                  /\ expanded_domains' = EmptyDict
                  /\ deleted_roots' = {}
                  /\ deleted_domains' = EmptyDict
                  /\ expand_calls' = <<>>
                  /\ table' = displayed_roots(call.out.result, {})
  /\ UNCHANGED <<configVars, op, filterVars, searchVars, expandVars>>

SearchRoots == SearchClick(MainCompanies, MainRuns(variant), MainReplies)

SearchRootsUI == SearchClick(UICompanies, UIRuns(variant), UIReplies)

\* main: a click on the delete button of a root row; st.rerun() draws the table
\* again
DeleteRoot ==
  /\ op = "idle"
  /\ variant = "domain_search" => api_key_set
  /\ \E idx \in 1..Len(displayed_roots(root_options, deleted_roots)) :
       LET r == displayed_roots(root_options, deleted_roots)[idx]
       IN /\ deleted_roots' = deleted_roots \cup {r}
          /\ table' = displayed_roots(root_options, deleted_roots \cup {r})
  /\ clicked' = "delete_root"
  /\ UNCHANGED <<expanded_domains, deleted_domains, expand_calls>>
  /\ UNCHANGED <<configVars, op, filterVars, searchVars, expandVars, mainVars, cache>>

\* main: a click on "Find all domains" of a root row. When get_all_domains
\* raises, the run ends at this row with the session state as it was; when its
\* loop does not end, the run stays in the call.
FindAllDomains ==
  /\ op = "idle"
  /\ variant = "domain_search" => api_key_set
  /\ Len(expand_calls) < MaxExpandCalls
  /\ \E idx \in 1..Len(displayed_roots(root_options, deleted_roots)),
        answers \in UIAnswers :
       LET shown == displayed_roots(root_options, deleted_roots)
           r == shown[idx]
           call == get_all_domains(variant, api_key_set, engine_id_set, r, answers)
       IN /\ find_offered(r, expanded_domains)
          /\ expand_calls' = Append(expand_calls, r)
          /\ IF call.outcome = "returned"
             THEN /\ expanded_domains' = dict_set(expanded_domains, r, call.domains)
                  /\ deleted_domains' = dict_set(deleted_domains, r, {})
                  /\ table' = shown
                  /\ UNCHANGED op
             ELSE /\ table' = SubSeq(shown, 1, idx)
                  /\ op' = IF call.outcome = "running" THEN "main" ELSE op
                  /\ UNCHANGED <<expanded_domains, deleted_domains>>
  /\ clicked' = "find"
  /\ UNCHANGED deleted_roots
  /\ UNCHANGED <<configVars, filterVars, searchVars, expandVars, mainVars, cache>>

\* main: a click on the delete button of a domain listed under an expanded root;
\* deleted_domains[root].add(domain) raises KeyError when the root is no key
DeleteDomain ==
  /\ op = "idle"
  /\ variant = "domain_search" => api_key_set
  /\ \E idx \in 1..Len(displayed_roots(root_options, deleted_roots)) :
       LET shown == displayed_roots(root_options, deleted_roots)
           r == shown[idx]
       IN /\ ~find_offered(r, expanded_domains)
          /\ \E didx \in 1..Len(expanded_domains[r]) :
               LET domain == expanded_domains[r][didx]
               IN /\ domain \notin dict_get(deleted_domains, r)
                  /\ IF r \in DOMAIN deleted_domains
                     THEN /\ deleted_domains' =
                               dict_set(deleted_domains, r, deleted_domains[r] \cup {domain})
                          /\ table' = shown
                     ELSE /\ table' = SubSeq(shown, 1, idx)
                          /\ UNCHANGED deleted_domains
  /\ clicked' = "delete_domain"
  /\ UNCHANGED <<expanded_domains, deleted_roots, expand_calls>>
  /\ UNCHANGED <<configVars, op, filterVars, searchVars, expandVars, mainVars, cache>>

NextFilter == CallPreFilter \/ CallFilterLlm \/ Return

\* the filter calls read no search credential
InitFilter == Init /\ api_key_set = TRUE /\ engine_id_set = TRUE

SpecFilter == InitFilter /\ [][NextFilter]_vars

NextSearch == CallSearchGoogle \/ Return

\* the search calls use no model
InitSearch == Init /\ llm_client = FALSE

SpecSearch == InitSearch /\ [][NextSearch]_vars

NextExpand == CallGetAllDomains \/ GetAllDomainsIterate \/ Return

SpecExpand == InitSearch /\ [][NextExpand]_vars

NextCache == CallCachedFilter \/ Return

SpecCache == InitFilter /\ [][NextCache]_vars

NextMain == SearchRoots

SpecMain == Init /\ [][NextMain]_vars

NextUI == SearchRootsUI \/ DeleteRoot \/ FindAllDomains \/ DeleteDomain

\* the table is used with both search credentials present
InitUI == Init /\ api_key_set = TRUE /\ engine_id_set = TRUE

SpecUI == InitUI /\ [][NextUI]_vars

----------------------------------------------------------------------------
(* Properties *)

\* C1: in every state of a get_all_domains call, whatever the provider answers,
\* "https://www.<root>.com" is in found_domains, and it is in the list the call
\* returns.
C1_SeedAlwaysPresent ==
  op = "get_all_domains" =>
    /\ (str_https_www \o root \o <<".">> \o str_com) \in found_domains
    /\ pc = "returned" => InList(str_https_www \o root \o <<".">> \o str_com, result)

\* the first search failed, the call returned the seed alone
C1_Witness ==
  /\ op = "get_all_domains" /\ pc = "returned"
  /\ Len(queries) = 1 /\ pages = <<ErrorPage("status")>>
  /\ result = <<str_https_www \o root \o <<".">> \o str_com>>

\* the last iteration got links and none of them added a suffix
StaleIteration ==
  /\ op = "get_all_domains"
  /\ Len(queries) >= 1
  /\ search_out.outcome = "returned" /\ links # <<>>
  /\ Len(excluded_after) = Len(queries)
  /\ excluded_after[Len(queries)] =
       (IF Len(queries) = 1 THEN {str_com} ELSE excluded_after[Len(queries) - 1])

\* C2: when an iteration's query returns URLs and none of them adds a suffix that
\* was not excluded already, the loop ends and get_all_domains returns.
C2_EndsWhenNoNewSuffix == StaleIteration => pc = "returned"

\* the excluded suffixes when the j-th query was built
ExcludedAtQuery(j) == IF j = 1 THEN {str_com} ELSE excluded_after[j - 1]

\* C3: within one get_all_domains call excluded_tlds only grows from iteration
\* to iteration, and the query of each iteration has the term "-<suffix>" for
\* every suffix excluded at that moment, so for every suffix found in an earlier
\* iteration.
C3_ExcludedGrowsAndIsQueried ==
  op = "get_all_domains" =>
    /\ \A k \in 1..Len(excluded_after) : ExcludedAtQuery(k) \subseteq excluded_after[k]
    /\ excluded_tlds = ExcludedAtQuery(Len(excluded_after) + 1)
    /\ \A j \in 1..Len(queries) : \A k \in 1..j : \A s \in ExcludedAtQuery(k) :
         InList(<<"-">> \o s, Split(queries[j], " "))

\* "co.uk" was found in the first iteration and a later query was built
C3_Witness ==
  /\ op = "get_all_domains"
  /\ Len(queries) >= 3
  /\ str_co_uk \in excluded_after[1]
  /\ str_de \in excluded_after[2] \ excluded_after[1]

\* C4: search_google never propagates an exception to its caller, in any script.
C4_NeverRaises == op = "search_google" => search_out.outcome # "raised"

\* a credential search_google needs is absent
CredentialMissing ==
  IF variant = "try_streamlit" THEN ~api_key_set ELSE ~api_key_set \/ ~engine_id_set

\* C5: without a required credential search_google makes no HTTP request and
\* ends otherwise than by returning a list, which is what a search without
\* results does.
C5_MissingCredentialsExplicit ==
  (op = "search_google" /\ CredentialMissing) =>
    /\ search_out.requests = <<>>
    /\ search_out.outcome # "returned"

\* the protection rule as stated: the lowercased domain without its hyphens
\* starts with the lowercased company name, or the lowercased domain starts or
\* ends with it
StatedProtected(d, c) ==
  \/ StartsWith(Replace(Lower(d), <<"-">>, <<>>), Lower(c))
  \/ StartsWith(Lower(d), Lower(c))
  \/ EndsWith(Lower(d), Lower(c))

\* C6 as stated: for every non-empty company name pre_filter_domains keeps every
\* protected domain.
C6_ProtectedKept_AnyCompany ==
  op = "pre_filter_domains" =>
    \A i \in 1..Len(domains) :
      (company_name # <<>> /\ StatedProtected(domains[i], company_name))
        => InList(domains[i], filter_out.result)

\* C6, amended: for every company name of more than 2 characters
\* pre_filter_domains keeps every protected domain, also one that contains an
\* exclusion pattern.
C6_ProtectedKept ==
  op = "pre_filter_domains" =>
    \A i \in 1..Len(domains) :
      (Len(company_name) > 2 /\ StatedProtected(domains[i], company_name))
        => InList(domains[i], filter_out.result)

\* "acme-news" is kept for "acme"
C6_Witness ==
  /\ op = "pre_filter_domains"
  /\ domains = <<str_acme_news>> /\ company_name = str_acme
  /\ filter_out.result = <<str_acme_news>>

\* the exclusion rule as stated, of a lowercased domain
StatedExcluded(dl) ==
  \/ \E k \in 1..Len(exclude_patterns) : Contains(dl, exclude_patterns[k])
  \/ (dl # <<>> /\ \A i \in 1..Len(dl) : dl[i] \in DigitChars)
  \/ Len(dl) <= 2
  \/ \E k \in 1..Len(FileExtTokens) : Contains(dl, FileExtTokens[k])
  \/ 10 * Cardinality({i \in 1..Len(dl) : dl[i] \in DigitChars}) > 7 * Len(dl)

\* C7: pre_filter_domains drops a domain that is not protected exactly when it
\* contains an exclusion substring, is purely numeric, has at most 2 characters,
\* contains a file-extension token or is more than 70% digits; and
\* ["facebook", "wikipedia", "acmecorp"] for "acme" gives ["acmecorp"].
C7_ExcludedIffRule ==
  op = "pre_filter_domains" =>
    /\ \A i \in 1..Len(domains) :
         ~(Len(company_name) > 2 /\ StatedProtected(domains[i], company_name))
           => (~InList(domains[i], filter_out.result)
                 <=> StatedExcluded(Lower(domains[i])))
    /\ (domains = ExampleDomains /\ company_name = str_acme)
         => filter_out.result = <<str_acmecorp>>

\* the example call
C7_Witness ==
  /\ op = "pre_filter_domains"
  /\ domains = ExampleDomains /\ company_name = str_acme
  /\ filter_out.result = <<str_acmecorp>>

\* C8: without an LLM client, or with an empty list,
\* filter_social_and_news_domains_llm returns its input as it is, runs no
\* prefilter and sends no request.
C8_NoClientNoOp ==
  (op = "filter_social_and_news_domains_llm" /\ (~llm_client \/ domains = <<>>)) =>
    /\ filter_out.result = domains
    /\ filter_out.pre_filter_calls = 0
    /\ filter_out.llm_requests = 0

\* no client, and a list the prefilter would have cut
C8_Witness ==
  /\ op = "filter_social_and_news_domains_llm"
  /\ variant = "streamlit_ui" /\ ~llm_client
  /\ domains = ExampleDomains /\ company_name = str_acme
  /\ filter_out.result = ExampleDomains

\* how many of the extracted URLs yield the root
UrlsWith(r) ==
  Cardinality({k \in 1..Len(unique_links) :
                 InList(r, extract_root_domains(variant, <<unique_links[k]>>))})

FirstIndex(x, list) == CHOOSE i \in 1..Len(list) : list[i] = x /\ \A j \in 1..(i - 1) : list[j] # x

\* C9: the ranking has every distinct root once, by descending number of
\* occurrences in the extraction results, equal counts in first-seen order; and
\* a root that is in more result URLs than another comes before it.
C9_RankedByFrequency ==
  search_status = "ok" =>
    /\ \A i, j \in 1..Len(most_common) : most_common[i] = most_common[j] => i = j
    /\ {most_common[i] : i \in 1..Len(most_common)} = {roots[i] : i \in 1..Len(roots)}
    /\ \A i, j \in 1..Len(most_common) :
         i < j =>
           \/ Count(most_common[i], roots) > Count(most_common[j], roots)
           \/ /\ Count(most_common[i], roots) = Count(most_common[j], roots)
              /\ FirstIndex(most_common[i], roots) < FirstIndex(most_common[j], roots)
    /\ \A i, j \in 1..Len(most_common) :
         UrlsWith(most_common[i]) > UrlsWith(most_common[j]) => i < j

\* the label of a domain: what precedes its first dot
BareLabel(d) == Head(Split(d, "."))

\* the list the model is asked about
StatedPrefiltered ==
  IF variant = "streamlit_ui"
  THEN SelectSeq(domains,
         LAMBDA d : \/ (Len(company_name) > 2 /\ StatedProtected(d, company_name))
                    \/ ~StatedExcluded(Lower(d)))
  ELSE domains

\* what extract_root_domains of the script can put in the ranking: a lowercased
\* label, in streamlit_ui also "<label>.<suffix>"
ExtractableRoot(d) ==
  /\ d # <<>>
  /\ Lower(d) = d
  /\ variant # "streamlit_ui" => ~Contains(d, <<".">>)

\* C10: when the model has answered, the list returned for a list of extracted
\* roots is the prefiltered input without the domains whose label, compared
\* case-insensitively, is one of the labels parsed from the answer.
C10_KeptIsPrefilteredMinusFlagged ==
  (/\ op = "filter_social_and_news_domains_llm"
   /\ filter_out.llm_requests = 1 /\ ~filter_out.failed
   /\ \A i \in 1..Len(domains) : ExtractableRoot(domains[i])) =>
    filter_out.result =
      SelectSeq(StatedPrefiltered,
                LAMBDA d : ~\E k \in 1..Len(filter_out.flagged) :
                              Lower(filter_out.flagged[k]) = Lower(BareLabel(d)))

\* C11: when the model request raises, or the answer has no text to parse,
\* filter_social_and_news_domains_llm returns the prefiltered list (its input in
\* the scripts without a prefilter) as it is.
C11_FailureReturnsPrefiltered ==
  (/\ op = "filter_social_and_news_domains_llm"
   /\ llm_client /\ domains # <<>>
   /\ llm_reply.kind \in {"error", "no_content"}) =>
    filter_out.result = StatedPrefiltered

\* the request failed after the prefilter had cut the list
C11_Witness ==
  /\ op = "filter_social_and_news_domains_llm"
  /\ variant = "streamlit_ui" /\ llm_client
  /\ llm_reply.kind = "error"
  /\ domains = <<str_acme_news, str_tesla>> /\ company_name = <<>>
  /\ filter_out.failed /\ filter_out.llm_requests = 1
  /\ filter_out.result = <<str_tesla>>

\* C12: in one session a call of filter_social_and_news_domains_llm with
\* arguments of an earlier call returns what that call returned and sends no
\* request to the model; what a call returned stays stored from then on, so the
\* model is asked at most once per (domain list, company name).
C12_RepeatedCallIsServedFromCache ==
  [][/\ cache \subseteq cache'
     /\ op' = "cached_filter" =>
          /\ [args |-> <<domains', company_name'>>, value |-> filter_out'.result] \in cache'
          /\ \A e \in cache :
               e.args = <<domains', company_name'>> =>
                 /\ filter_out'.result = e.value
                 /\ filter_out'.llm_requests = 0]_vars

\* a repeated call: the model would now answer "none", the list returned is the
\* one of the earlier call, which had flagged "tesla"
C12_Witness ==
  /\ op = "cached_filter"
  /\ llm_client /\ variant = "streamlit_ui"
  /\ domains = <<str_acme_news, str_tesla>> /\ company_name = str_acme
  /\ llm_reply = [kind |-> "ok", text |-> str_none]
  /\ filter_out.llm_requests = 0
  /\ filter_out.result = <<str_acme_news>>

\* C13: after a search that ran to its end the root list of the session is the
\* one of that search: every root in it was extracted in that search, and the
\* list is empty when the search found no URL or no extractable root.
C13_RootListIsLastSearch ==
  search_status \in {"ok", "no_roots"} =>
    /\ \A i \in 1..Len(root_options) : InList(root_options[i], roots)
    /\ search_status = "no_roots" => root_options = <<>>

\* C15: a click on the search button with the company name, the provider
\* answers and the model answer of the click before it leaves the same ranked
\* list and the same filtered root list.
C15_SameInputsSameRoots ==
  [][(/\ search_status # "none"
      /\ company' = company
      /\ provider_answers' = provider_answers
      /\ model_answer' = model_answer) =>
       /\ search_status' = search_status
       /\ most_common' = most_common
       /\ root_options' = root_options]_vars

\* a search that found roots, with the model answering; every click gets to
\* this state again with the same inputs
C15_Witness ==
  /\ search_status = "ok"
  /\ variant = "domain_search" /\ llm_client
  /\ company = str_Acme
  /\ Len(provider_answers) = 5 /\ provider_answers[1] # provider_answers[2]
  /\ model_answer.kind = "ok"
  /\ most_common = <<str_acme, str_tesla, str_facebook>>
  /\ root_options = <<str_acme, str_tesla>>

\* a is b with some of its elements left out
RECURSIVE IsSubsequence(_, _)
IsSubsequence(a, b) ==
  IF a = <<>> THEN TRUE
  ELSE IF b = <<>> THEN FALSE
  ELSE IF Head(a) = Head(b) THEN IsSubsequence(Tail(a), Tail(b))
  ELSE IsSubsequence(a, Tail(b))

\* C14: what pre_filter_domains and filter_social_and_news_domains_llm return
\* is their input list with some elements left out: nothing added, duplicated or
\* moved, whatever the company name and the model's answer.
C14_ResultIsSubsequence ==
  op \in {"pre_filter_domains", "filter_social_and_news_domains_llm"} =>
    IsSubsequence(filter_out.result, domains)

\* the model flagged the first of two domains
C14_Witness ==
  /\ op = "filter_social_and_news_domains_llm"
  /\ variant = "streamlit_ui" /\ filter_out.llm_requests = 1
  /\ domains = <<str_tesla, str_acme_news>> /\ company_name = str_acme
  /\ filter_out.flagged = <<str_tesla>>
  /\ filter_out.result = <<str_acme_news>>

\* the lowercased labels of the extracted URLs that have a label and a suffix
LabelsOfLinks ==
  {Lower(unique_links[k].domain) :
     k \in {j \in 1..Len(unique_links) :
              unique_links[j].domain # <<>> /\ unique_links[j].suffix # <<>>}}

\* C16: every root extracted and ranked by a search is the lowercased label of
\* one of its URLs that has a label and a suffix, and has no "." in it.
C16_RootsAreBareLabels ==
  search_status \in {"ok", "no_roots"} =>
    /\ \A i \in 1..Len(roots) :
         roots[i] \in LabelsOfLinks /\ ~Contains(roots[i], <<".">>)
    /\ search_status = "ok" =>
         \A i \in 1..Len(most_common) :
           most_common[i] \in LabelsOfLinks /\ ~Contains(most_common[i], <<".">>)

\* an entry of the answer, normalized as stated
StatedEntry(e) == Replace(Replace(Lower(Strip(e)), str_dot_com, <<>>), <<".">>, <<>>)

\* the exclusion labels of an answer as stated: the normalized entries that are
\* neither empty nor "none"
StatedLabels(text) ==
  SelectSeq([i \in 1..Len(Split(Lower(Strip(text)), ",")) |->
               StatedEntry(Split(Lower(Strip(text)), ",")[i])],
            LAMBDA n : n # <<>> /\ n # str_none)

\* C17: when the model has answered, the exclusion labels are the answer's
\* comma-separated entries trimmed, lowercased and without ".com" and periods,
\* "none" and empty entries left out: an answer without labels removes no
\* domain, and a domain that is one of the labels is removed.
C17_AnswerIsNormalized ==
  (/\ op = "filter_social_and_news_domains_llm"
   /\ filter_out.llm_requests = 1 /\ ~filter_out.failed) =>
    /\ StatedLabels(llm_reply.text) = <<>> => filter_out.result = StatedPrefiltered
    /\ \A i \in 1..Len(domains) :
         InList(domains[i], StatedLabels(llm_reply.text))
           => ~InList(domains[i], filter_out.result)

\* C18: in the script with the prefilter, a domain of the input of
\* filter_social_and_news_domains_llm that the protection rule covers is in the
\* list returned, whatever the model answers.
C18_ProtectedSurvivesChain ==
  (op = "filter_social_and_news_domains_llm" /\ variant = "streamlit_ui") =>
    \A i \in 1..Len(domains) :
      (Len(company_name) > 2 /\ StatedProtected(domains[i], company_name))
        => InList(domains[i], filter_out.result)

\* C19: one call of the Google search_google makes at most 10 requests, the
\* k-th of them at start offset 10(k-1)+1, so at 1, 11, ..., 91 in this order
\* and never above 100, and returns at most num links.
C19_RequestsAreBounded ==
  (op = "search_google" /\ variant # "try_streamlit") =>
    /\ Len(search_out.requests) <= 10
    /\ \A k \in 1..Len(search_out.requests) :
         /\ search_out.requests[k].start = 10 * (k - 1) + 1
         /\ search_out.requests[k].start \in {1, 11, 21, 31, 41, 51, 61, 71, 81, 91}
    /\ Len(search_out.links) <= num

\* the provider had more than ten full pages: ten requests, the last at 91, and
\* the 100 links of them for a limit of 400
C19_Witness ==
  /\ op = "search_google" /\ variant = "streamlit_ui"
  /\ num = 400 /\ Len(pages) > 10
  /\ Len(search_out.requests) = 10
  /\ search_out.requests[10].start = 91
  /\ Len(search_out.links) = 100

\* what the provider answered to the k-th request of the call
AnswerTo(k) == ProviderAnswer(pages, k, search_out.requests[k].num)

\* the links of the answers to the first k requests, one page after the other
RECURSIVE LinksUpTo(_)
LinksUpTo(k) ==
  IF k = 0 THEN <<>>
  ELSE LinksUpTo(k - 1) \o (IF AnswerTo(k).kind = "ok" THEN AnswerTo(k).links ELSE <<>>)

\* C20: in one search_google call every request but the last was answered by a
\* page with at least the links it asked for, so none follows a short page, an
\* error status or an exception; and the Google scripts then return the links
\* of the pages received, cut to num.
C20_StopsAfterShortOrFailedPage ==
  op = "search_google" =>
    /\ \A k \in 1..(Len(search_out.requests) - 1) :
         /\ AnswerTo(k).kind = "ok"
         /\ Len(AnswerTo(k).links) >= search_out.requests[k].num
    /\ variant # "try_streamlit" =>
         /\ search_out.outcome \in {"returned", "stopped"}
         /\ search_out.links =
              SubSeq(LinksUpTo(Len(search_out.requests)), 1,
                     Min(num, Len(LinksUpTo(Len(search_out.requests)))))

\* the second page failed: two requests of the ten the limit allows, and the
\* ten links of the first page returned
C20_Witness ==
  /\ op = "search_google" /\ variant = "domain_search"
  /\ num = 100
  /\ Len(pages) = 2 /\ pages[2].kind = "exc"
  /\ Len(search_out.requests) = 2
  /\ search_out.outcome = "returned"
  /\ Len(search_out.links) = 10

\* C21: in one call of the Google search_google with num >= 1 every request
\* asks for between 1 and 10 results, and is made while fewer than num links
\* have been received.
C21_NoRequestOnceNumReached ==
  (op = "search_google" /\ variant # "try_streamlit" /\ num >= 1) =>
    \A k \in 1..Len(search_out.requests) :
      /\ search_out.requests[k].num \in 1..10
      /\ Len(LinksUpTo(k - 1)) < num

\* the text "https://www.<label>.<suffix>", spelled out
StatedUrl(label, suffix) ==
  <<"h","t","t","p","s",":","/","/","w","w","w",".">> \o label \o <<".">> \o suffix

\* s comes before t in code point order
ComesBefore(s, t) ==
  \/ Len(s) < Len(t) /\ SubSeq(t, 1, Len(s)) = s
  \/ \E i \in 1..Len(s) :
       /\ i <= Len(t)
       /\ SubSeq(s, 1, i - 1) = SubSeq(t, 1, i - 1)
       /\ Ord(s[i]) < Ord(t[i])

\* C22: throughout a call of get_all_domains, found_domains is exactly the
\* set of https://www.<root>.<s> for s in excluded_tlds, the two sets have the
\* same size and every suffix is lowercase; the returned list holds exactly
\* these URLs in strictly ascending order.
C22_FoundMatchesExcluded ==
  op = "get_all_domains" =>
    /\ found_domains = {StatedUrl(root, s) : s \in excluded_tlds}
    /\ Cardinality(found_domains) = Cardinality(excluded_tlds)
    /\ \A s \in excluded_tlds : Lower(s) = s
    /\ pc = "returned" =>
         /\ {result[i] : i \in 1..Len(result)} = found_domains
         /\ \A i \in 1..(Len(result) - 1) : ComesBefore(result[i], result[i + 1])

\* a call returned after a link with the suffix "DE" and one with "co.uk"
\* were found
C22_Witness ==
  /\ op = "get_all_domains" /\ pc = "returned"
  /\ {str_de, str_co_uk} \subseteq excluded_tlds
  /\ Len(result) >= 3

\* C23: in domain_search.py and streamlit_ui.py, whatever buttons were clicked:
\* right after a search that found roots the three session collections are
\* empty; deleted_domains and expanded_domains have the same keys; every root
\* row drawn is in root_options and not in deleted_roots; and no root was
\* passed to get_all_domains twice since the last search that found roots.
C23_SessionStateConsistent ==
  variant # "try_streamlit" =>
    /\ (clicked = "search" /\ search_status = "ok") =>
         /\ DOMAIN expanded_domains = {}
         /\ deleted_roots = {}
         /\ DOMAIN deleted_domains = {}
    /\ DOMAIN deleted_domains = DOMAIN expanded_domains
    /\ \A i \in 1..Len(table) :
         /\ \E j \in 1..Len(root_options) : root_options[j] = table[i]
         /\ table[i] \notin deleted_roots
    /\ \A i, j \in 1..Len(expand_calls) :
         i # j => expand_calls[i] # expand_calls[j]

\* two roots were expanded, a domain of one was deleted and then a root
C23_Witness ==
  /\ variant # "try_streamlit"
  /\ clicked = "delete_root"
  /\ Len(expand_calls) = 2
  /\ \E r \in DOMAIN deleted_domains : deleted_domains[r] # {}
  /\ Len(table) < Len(root_options)

====
